---- MODULE Spec2Model ----
(***************************************************************************)
(* A model of mocklite: the schema compiler (MockDatabase.setup and        *)
(* parseField), the data generator (Seeder.clear / run / generateRow) and  *)
(* the generated REST handlers of MockServer (list, detail, create,        *)
(* update, delete) over a relational store that behaves as SQLite does for *)
(* the statements the code issues (integer / text column affinity,         *)
(* AUTOINCREMENT keys, REFERENCES ... ON DELETE CASCADE with foreign keys  *)
(* enforced, LIKE, LIMIT / OFFSET).                                        *)
(*                                                                         *)
(* JavaScript strings are TLA+ strings; startsWith, includes, split and    *)
(* replace are computed character by character.  A JavaScript / SQLite     *)
(* value is a record [t, n, s]: t is "null", "int", "str" or "bool".       *)
(* Fractional numbers are outside the model (page=1.5 is not an input).    *)
(***************************************************************************)
EXTENDS Integers, Sequences, FiniteSets, TLC

\* ------------------------------------------------------------------ bounds

\* the number of write requests (create / update / delete) that change the
\* store in one run
MaxWrites == 1
\* the number of re-seeds ('s' key presses) one run issues
MaxReseeds == 1

\* ----------------------------------------------------------------- strings

StartsWith(s, p) == Len(s) >= Len(p) /\ SubSeq(s, 1, Len(p)) = p

\* the first index at which p occurs in s, 0 when it does not occur
IndexOf(s, p) ==
  LET hits == {i \in 1..(Len(s) - Len(p) + 1) : SubSeq(s, i, i + Len(p) - 1) = p}
  IN  IF hits = {} THEN 0 ELSE CHOOSE i \in hits : \A j \in hits : i <= j

Includes(s, p) == IndexOf(s, p) # 0

\* String.prototype.replace(p, r) with a string pattern: the first occurrence only
ReplaceFirst(s, p, r) ==
  LET i == IndexOf(s, p)
  IN  IF i = 0 THEN s
      ELSE SubSeq(s, 1, i - 1) \o r \o SubSeq(s, i + Len(p), Len(s))

RECURSIVE Split(_, _)
\* String.prototype.split(sep) for a one-character separator
Split(s, sep) ==
  LET i == IndexOf(s, sep)
  IN  IF i = 0 THEN <<s>>
      ELSE <<SubSeq(s, 1, i - 1)>> \o Split(SubSeq(s, i + 1, Len(s)), sep)

Digits == <<"0", "1", "2", "3", "4", "5", "6", "7", "8", "9">>

IsDigit(c) == \E d \in 1..10 : Digits[d] = c

DigitVal(c) == (CHOOSE d \in 1..10 : Digits[d] = c) - 1

AllDigits(s) == \A i \in 1..Len(s) : IsDigit(SubSeq(s, i, i))

RECURSIVE DigitsVal(_)
DigitsVal(s) ==
  IF Len(s) = 0 THEN 0
  ELSE 10 * DigitsVal(SubSeq(s, 1, Len(s) - 1)) + DigitVal(SubSeq(s, Len(s), Len(s)))

\* a decimal integer literal: an optional sign and at least one digit
IsIntLiteral(s) ==
  LET body == IF Len(s) > 0 /\ SubSeq(s, 1, 1) \in {"-", "+"} THEN SubSeq(s, 2, Len(s)) ELSE s
  IN  Len(body) > 0 /\ AllDigits(body)

IntLiteralVal(s) ==
  IF SubSeq(s, 1, 1) = "-" THEN 0 - DigitsVal(SubSeq(s, 2, Len(s)))
  ELSE IF SubSeq(s, 1, 1) = "+" THEN DigitsVal(SubSeq(s, 2, Len(s)))
  ELSE DigitsVal(s)

RECURSIVE NatToStr(_)
NatToStr(n) ==
  IF n < 10 THEN Digits[n + 1] ELSE NatToStr(n \div 10) \o Digits[(n % 10) + 1]

\* Number.prototype.toString / SQLite's integer to text conversion
IntToStr(n) == IF n < 0 THEN "-" \o NatToStr(0 - n) ELSE NatToStr(n)

Uppers == <<"A", "B", "C", "D", "E", "F", "G", "H", "I", "J", "K", "L", "M",
            "N", "O", "P", "Q", "R", "S", "T", "U", "V", "W", "X", "Y", "Z">>

Lowers == <<"a", "b", "c", "d", "e", "f", "g", "h", "i", "j", "k", "l", "m",
            "n", "o", "p", "q", "r", "s", "t", "u", "v", "w", "x", "y", "z">>

\* ASCII case folding of one character, as SQLite's LIKE folds it
LowerChar(c) ==
  IF \E i \in 1..26 : Uppers[i] = c THEN Lowers[CHOOSE i \in 1..26 : Uppers[i] = c] ELSE c

RECURSIVE LikeMatch(_, _)
\* SQLite's LIKE: % matches any run of characters, _ one character, the rest
\* compares without regard to ASCII case
LikeMatch(pat, s) ==
  IF Len(pat) = 0 THEN Len(s) = 0
  ELSE IF SubSeq(pat, 1, 1) = "%"
    THEN LikeMatch(SubSeq(pat, 2, Len(pat)), s)
         \/ (Len(s) > 0 /\ LikeMatch(pat, SubSeq(s, 2, Len(s))))
  ELSE IF SubSeq(pat, 1, 1) = "_"
    THEN Len(s) > 0 /\ LikeMatch(SubSeq(pat, 2, Len(pat)), SubSeq(s, 2, Len(s)))
  ELSE Len(s) > 0
       /\ LowerChar(SubSeq(pat, 1, 1)) = LowerChar(SubSeq(s, 1, 1))
       /\ LikeMatch(SubSeq(pat, 2, Len(pat)), SubSeq(s, 2, Len(s)))

\* ------------------------------------------------------------------ values

NullV == [t |-> "null", n |-> 0, s |-> ""]
IntV(n) == [t |-> "int", n |-> n, s |-> ""]
StrV(s) == [t |-> "str", n |-> 0, s |-> s]
BoolV(b) == [t |-> "bool", n |-> IF b THEN 1 ELSE 0, s |-> ""]

\* ---------------------------------------------------------- field definitions

\* FieldType = string | { type, options?, values? }: a string definition is
\* [obj |-> FALSE, s |-> the string]; an object definition carries its type in s
StrDef(s) == [obj |-> FALSE, s |-> s, hasValues |-> FALSE, values |-> <<>>]
ObjDef(type) == [obj |-> TRUE, s |-> type, hasValues |-> FALSE, values |-> <<>>]
EnumDef(values) == [obj |-> TRUE, s |-> "enum", hasValues |-> TRUE, values |-> values]

Field(name, def) == [name |-> name, def |-> def]
TableSchema(table, seed, fields) == [table |-> table, seed |-> seed, fields |-> fields]

IsFkDef(def) == ~def.obj /\ StartsWith(def.s, "fk:")

\* the foreign-key fields of a table of the schema
FkFields(table) == {k \in 1..Len(table.fields) : IsFkDef(table.fields[k].def)}

\* --------------------------------------------------------------- the schemas

\* src/core/defaults.ts with the seed counts reduced: users, and posts that
\* belong to a user
CfgBlog ==
  <<TableSchema("users", 2, <<Field("id", StrDef("pk")),
                              Field("name", StrDef("faker.person.fullName"))>>),
    TableSchema("posts", 2, <<Field("id", StrDef("pk")),
                              Field("authorId", StrDef("fk:users.id"))>>)>>

\* boolean generators in string and in object form
CfgFlags ==
  <<TableSchema("flags", 2, <<Field("id", StrDef("pk")),
                              Field("on", StrDef("faker.datatype.boolean")),
                              Field("isActive", ObjDef("faker.datatype.boolean"))>>)>>

\* every other kind of field: enum object, generator object, literal string,
\* integer generator
CfgKinds ==
  <<TableSchema("items", 1, <<Field("id", StrDef("pk")),
                              Field("role", EnumDef(<<"admin", "editor">>)),
                              Field("nick", ObjDef("faker.person.fullName")),
                              Field("label", StrDef("draft")),
                              Field("qty", StrDef("faker.number.int"))>>)>>

\* a foreign key into the table itself, into a table declared later and into
\* a table seeded with no rows
CfgTree ==
  <<TableSchema("tags", 0, <<Field("id", StrDef("pk")),
                             Field("name", StrDef("faker.person.fullName"))>>),
    TableSchema("nodes", 2, <<Field("id", StrDef("pk")),
                              Field("parentId", StrDef("fk:nodes.id")),
                              Field("ownerId", StrDef("fk:owners.id")),
                              Field("tagId", StrDef("fk:tags.id"))>>),
    TableSchema("owners", 1, <<Field("id", StrDef("pk")),
                               Field("name", StrDef("faker.person.fullName"))>>)>>

\* a foreign key into a table the schema does not declare; its table is not seeded
CfgGhost ==
  <<TableSchema("posts", 0, <<Field("id", StrDef("pk")),
                              Field("authorId", StrDef("fk:ghost.id"))>>),
    TableSchema("users", 1, <<Field("id", StrDef("pk")),
                              Field("name", StrDef("faker.person.fullName"))>>)>>

\* the same, seeded after a table that seeds well: generation reads the
\* undeclared table
CfgGhostSeeded ==
  <<TableSchema("users", 1, <<Field("id", StrDef("pk")),
                              Field("name", StrDef("anon"))>>),
    TableSchema("posts", 1, <<Field("id", StrDef("pk")),
                              Field("authorId", StrDef("fk:ghost.id"))>>)>>

\* a foreign key into a column that is not the target's primary key
CfgByName ==
  <<TableSchema("users", 1, <<Field("id", StrDef("pk")),
                              Field("name", StrDef("faker.person.fullName"))>>),
    TableSchema("posts", 0, <<Field("id", StrDef("pk")),
                              Field("ownerName", StrDef("fk:users.name"))>>)>>

\* two foreign keys into the same table, the second with "Id" inside its name
CfgMail ==
  <<TableSchema("users", 2, <<Field("id", StrDef("pk")),
                              Field("name", StrDef("anon"))>>),
    TableSchema("messages", 1, <<Field("id", StrDef("pk")),
                                 Field("senderId", StrDef("fk:users.id")),
                                 Field("openIdUserId", StrDef("fk:users.id"))>>)>>

\* boolean fields on both sides of a relation (defaults.ts: isActive)
CfgMembers ==
  <<TableSchema("users", 1, <<Field("id", StrDef("pk")),
                              Field("isActive", ObjDef("faker.datatype.boolean"))>>),
    TableSchema("posts", 1, <<Field("id", StrDef("pk")),
                              Field("authorId", StrDef("fk:users.id")),
                              Field("draft", StrDef("faker.datatype.boolean"))>>)>>

\* a primary key that is not named id, and a foreign key into it
CfgUid ==
  <<TableSchema("users", 1, <<Field("uid", StrDef("pk")),
                              Field("name", StrDef("anon"))>>),
    TableSchema("posts", 1, <<Field("id", StrDef("pk")),
                              Field("userId", StrDef("fk:users.uid"))>>)>>

\* an object definition whose type is neither enum nor a generator path
CfgBogusType ==
  <<TableSchema("things", 1, <<Field("id", StrDef("pk")),
                               Field("kind", ObjDef("bogus"))>>)>>

\* a foreign key without a target, in a table that is not seeded
CfgNoTarget ==
  <<TableSchema("posts", 0, <<Field("id", StrDef("pk")),
                              Field("authorId", StrDef("fk:"))>>)>>

Configs == {CfgBlog, CfgFlags, CfgKinds, CfgTree, CfgGhost, CfgGhostSeeded, CfgByName,
            CfgMail, CfgMembers, CfgUid, CfgBogusType, CfgNoTarget}

TableNames(schema) == {schema[i].table : i \in 1..Len(schema)}

\* this.config.schema.find((t) => t.table === tableName): the index of the
\* first table of that name, 0 for undefined
FindTable(schema, name) ==
  LET hits == {i \in 1..Len(schema) : schema[i].table = name}
  IN  IF hits = {} THEN 0 ELSE CHOOSE i \in hits : \A j \in hits : i <= j

\* table.fields[key]: the index of the field of that name, 0 for undefined
FindField(fields, key) ==
  LET hits == {i \in 1..Len(fields) : fields[i].name = key}
  IN  IF hits = {} THEN 0 ELSE CHOOSE i \in hits : TRUE

\* def.split(":")[1], the text after the first colon ("" is falsy)
FkTarget(def) == Split(def.s, ":")[2]

\* const [targetTable, targetCol] = target.split("."): a missing element is
\* undefined, which a template string prints as "undefined"
FkTargetTable(def) == Split(FkTarget(def), ".")[1]

FkHasCol(def) == Len(Split(FkTarget(def), ".")) >= 2

FkTargetCol(def) == IF FkHasCol(def) THEN Split(FkTarget(def), ".")[2] ELSE "undefined"

\* every foreign key of the schema names a declared table
FkTargetsDeclared(schema) ==
  \A i \in 1..Len(schema) : \A k \in 1..Len(schema[i].fields) :
    LET def == schema[i].fields[k].def
    IN  IsFkDef(def) => (FkTarget(def) # "" /\ FkTargetTable(def) \in TableNames(schema))

\* ------------------------------------------------------- the schema compiler

Column(name, type, pk, ref) == [name |-> name, type |-> type, pk |-> pk, ref |-> ref]

\* MockDatabase.parseField: the column a field definition compiles to; ok is
\* FALSE where the code throws
parseField(name, def) ==
  IF ~def.obj THEN
    IF def.s = "pk" THEN [ok |-> TRUE, col |-> Column(name, "integer", TRUE, <<>>)]
    ELSE IF StartsWith(def.s, "fk:") THEN
      IF FkTarget(def) = "" THEN [ok |-> FALSE, col |-> Column(name, "text", FALSE, <<>>)]
      ELSE [ok |-> TRUE,
            col |-> Column(name, "integer", FALSE,
                           <<[table |-> FkTargetTable(def), col |-> FkTargetCol(def)]>>)]
    ELSE IF Includes(def.s, "number") \/ Includes(def.s, "int")
      THEN [ok |-> TRUE, col |-> Column(name, "integer", FALSE, <<>>)]
    ELSE IF Includes(def.s, "boolean")
      THEN [ok |-> TRUE, col |-> Column(name, "integer", FALSE, <<>>)]
    ELSE [ok |-> TRUE, col |-> Column(name, "text", FALSE, <<>>)]
  ELSE [ok |-> TRUE, col |-> Column(name, "text", FALSE, <<>>)]

\* ------------------------------------------------------------------ the store

\* db: table name -> [cols, rows, seq]; rows are kept in rowid order and seq is
\* the AUTOINCREMENT counter (a key is never reused)
EmptyDb == [n \in {} |-> 0]

HasTable(db, t) == t \in DOMAIN db

ColNames(db, t) == {db[t].cols[i].name : i \in 1..Len(db[t].cols)}

ColOf(db, t, name) == db[t].cols[CHOOSE i \in 1..Len(db[t].cols) : db[t].cols[i].name = name]

FkCols(db, t) == {i \in 1..Len(db[t].cols) : db[t].cols[i].ref # <<>>}

\* CREATE TABLE: fails when the table exists; a REFERENCES clause may name a
\* table that does not exist yet
CreateTable(db, t, cols) ==
  IF HasTable(db, t) THEN [ok |-> FALSE, db |-> db]
  ELSE [ok |-> TRUE, db |-> (t :> [cols |-> cols, rows |-> <<>>, seq |-> 0]) @@ db]

\* SQLite refuses to prepare a statement that changes a table one of whose
\* foreign keys has no parent table or names a parent column that is not the
\* parent's primary key
FkUnusable(db, t) ==
  \E i \in FkCols(db, t) :
    LET ref == db[t].cols[i].ref[1]
    IN  \/ ~HasTable(db, ref.table)
        \/ ~\E k \in 1..Len(db[ref.table].cols) :
               db[ref.table].cols[k].name = ref.col /\ db[ref.table].cols[k].pk

\* the same refusal, seen from the parent table of such a foreign key
ParentUnusable(db, t) ==
  \E c \in DOMAIN db : \E i \in FkCols(db, c) :
    LET ref == db[c].cols[i].ref[1]
    IN  ref.table = t
        /\ ~\E k \in 1..Len(db[t].cols) : db[t].cols[k].name = ref.col /\ db[t].cols[k].pk

\* an UPDATE of the parent is refused only when it sets the column such a
\* foreign key names
ParentColUnusable(db, t, names) ==
  \E c \in DOMAIN db : \E i \in FkCols(db, c) :
    LET ref == db[c].cols[i].ref[1]
    IN  /\ ref.table = t
        /\ ref.col \in names
        /\ ~\E k \in 1..Len(db[t].cols) : db[t].cols[k].name = ref.col /\ db[t].cols[k].pk

\* column affinity: an integer column stores text that reads as an integer as
\* that integer, a text column stores a number as its text
Affinity(type, v) ==
  IF type = "integer" /\ v.t = "str" /\ IsIntLiteral(v.s) THEN IntV(IntLiteralVal(v.s))
  ELSE IF type = "text" /\ v.t = "int" THEN StrV(IntToStr(v.n))
  ELSE v

\* col = ? with a bound parameter: the parameter takes the column's affinity,
\* NULL equals nothing
SqlEq(type, stored, param) == stored.t # "null" /\ stored = Affinity(type, param)

\* col LIKE ? : the stored value is read as text, NULL matches nothing
SqlLike(stored, pattern) ==
  /\ stored.t # "null"
  /\ LikeMatch(pattern, IF stored.t = "int" THEN IntToStr(stored.n) ELSE stored.s)

\* the elements of seq whose index is not in drop, in order
RemoveIdx(seq, drop) ==
  LET keep == {i \in 1..Len(seq) : i \notin drop}
  IN  [k \in 1..Cardinality(keep) |->
         seq[CHOOSE i \in keep : Cardinality({j \in keep : j < i}) = k - 1]]

\* the (child table, foreign-key column) pairs that reference table t
ChildRefs(db, t) ==
  {p \in UNION {{<<c, i>> : i \in FkCols(db, c)} : c \in DOMAIN db} :
     db[p[1]].cols[p[2]].ref[1].table = t}

RECURSIVE DeleteCascade(_, _, _)
RECURSIVE CascadeFrom(_, _, _)
\* DELETE of the rows of t at the indexes idxs, with ON DELETE CASCADE
\* (db.ts: references(...).onDelete("cascade")): every row of a child table
\* whose foreign key equals the referenced column of a deleted row is deleted
\* too, and so on
DeleteCascade(db, t, idxs) ==
  IF idxs = {} THEN db
  ELSE CascadeFrom([db EXCEPT ![t].rows = RemoveIdx(db[t].rows, idxs)], t,
                   {db[t].rows[i] : i \in idxs})

\* the cascade of the deleted rows gone of table t into its child tables
CascadeFrom(db, t, gone) ==
  LET hit(p) ==
        LET col == db[p[1]].cols[p[2]]
        IN  {j \in 1..Len(db[p[1]].rows) :
               \E g \in gone :
                 /\ col.ref[1].col \in DOMAIN g
                 /\ g[col.ref[1].col].t # "null"
                 /\ db[p[1]].rows[j][col.name] = g[col.ref[1].col]}
      live == {p \in ChildRefs(db, t) : hit(p) # {}}
  IN  IF live = {} THEN db
      ELSE LET p == CHOOSE q \in live : TRUE
           IN  CascadeFrom(DeleteCascade(db, p[1], hit(p)), t, gone)

\* the mutant of DeleteRows that deletes the rows named and no row that
\* references them
DeleteRowsNoCascade(db, t, idxs) ==
  IF ~HasTable(db, t) \/ FkUnusable(db, t) \/ ParentUnusable(db, t)
    THEN [ok |-> FALSE, db |-> db, n |-> 0]
  ELSE [ok |-> TRUE, db |-> [db EXCEPT ![t].rows = RemoveIdx(db[t].rows, idxs)],
        n |-> Cardinality(idxs)]

\* DELETE FROM t [WHERE ...] for the rows at idxs: ok is FALSE where SQLite
\* raises an error
DeleteRows(db, t, idxs) ==
  IF ~HasTable(db, t) \/ FkUnusable(db, t) \/ ParentUnusable(db, t)
    THEN [ok |-> FALSE, db |-> db, n |-> 0]
  ELSE [ok |-> TRUE, db |-> DeleteCascade(db, t, idxs), n |-> Cardinality(idxs)]

\* the mutant of FkSatisfied that accepts every foreign-key value
FkSatisfiedAlways(db, t, idxs) == TRUE

\* every non-null foreign key of the rows of t at idxs equals the referenced
\* column of some row of the parent table
FkSatisfied(db, t, idxs) ==
  \A j \in idxs : \A i \in FkCols(db, t) :
    LET col == db[t].cols[i]
        v == db[t].rows[j][col.name]
    IN  v.t # "null" =>
          \E k \in 1..Len(db[col.ref[1].table].rows) :
            db[col.ref[1].table].rows[k][col.ref[1].col] = v

\* a stored row: the key the store assigns, the given values under their
\* column's affinity, NULL for the columns not given
StoredRow(db, t, given, key) ==
  [c \in ColNames(db, t) |->
     IF ColOf(db, t, c).pk /\ c \notin DOMAIN given THEN IntV(key)
     ELSE IF c \in DOMAIN given THEN Affinity(ColOf(db, t, c).type, given[c])
     ELSE NullV]

\* a value map the driver can bind and the table can take: every key is a
\* column and no value is a JavaScript boolean (better-sqlite3 binds numbers,
\* strings and null only); the bodies of the model never set the key column,
\* which the store assigns
Bindable(db, t, given) ==
  /\ DOMAIN given # {}
  /\ \A c \in DOMAIN given :
       c \in ColNames(db, t) /\ given[c].t # "bool" /\ ~ColOf(db, t, c).pk

\* INSERT INTO t VALUES (...), (...): one statement, all rows or none
InsertRows(db, t, givens) ==
  IF \/ ~HasTable(db, t)
     \/ FkUnusable(db, t)
     \/ (Len(givens) > 1 /\ ParentUnusable(db, t))
     \/ \E k \in 1..Len(givens) : ~Bindable(db, t, givens[k])
    THEN [ok |-> FALSE, db |-> db, insertId |-> 0]
  ELSE
    LET old == Len(db[t].rows)
        new == [k \in 1..Len(givens) |-> StoredRow(db, t, givens[k], db[t].seq + k)]
        db1 == [db EXCEPT ![t].rows = @ \o new, ![t].seq = @ + Len(givens)]
    IN  IF FkSatisfied(db1, t, (old + 1)..(old + Len(givens)))
          THEN [ok |-> TRUE, db |-> db1, insertId |-> db1[t].seq]
        ELSE [ok |-> FALSE, db |-> db, insertId |-> 0]

\* UPDATE t SET ... for the rows at idxs
UpdateRows(db, t, idxs, given) ==
  IF ~HasTable(db, t) \/ FkUnusable(db, t) \/ ~Bindable(db, t, given)
     \/ ParentColUnusable(db, t, DOMAIN given)
    THEN [ok |-> FALSE, db |-> db, n |-> 0]
  ELSE
    LET db1 == [db EXCEPT ![t].rows =
                  [j \in 1..Len(@) |->
                     IF j \in idxs
                       THEN [c \in ColNames(db, t) |->
                               IF c \in DOMAIN given
                                 THEN Affinity(ColOf(db, t, c).type, given[c])
                               ELSE @[j][c]]
                     ELSE @[j]]]
    IN  IF FkSatisfied(db1, t, idxs)
          THEN [ok |-> TRUE, db |-> db1, n |-> Cardinality(idxs)]
        ELSE [ok |-> FALSE, db |-> db, n |-> 0]

\* ------------------------------------------------------------------- faker

FakerModules == {"person", "datatype", "number"}

FakerFunctions == {<<"person", "fullName">>, <<"datatype", "boolean">>, <<"number", "int">>}

\* what walking the faker object along a path arrives at
FakerNode(path) ==
  IF path = <<>> \/ (Len(path) = 1 /\ path[1] \in FakerModules) THEN "object"
  ELSE IF path \in FakerFunctions THEN "function"
  ELSE "undefined"

\* the values a generator may return (two of each, one a prefix of the other)
FakerCall(path) ==
  IF path = <<"person", "fullName">> THEN {StrV("Al"), StrV("Alba")}
  ELSE IF path = <<"datatype", "boolean">> THEN {BoolV(TRUE), BoolV(FALSE)}
  ELSE {IntV(1), IntV(12)}

\* Seeder.executeFakerPath: ok is FALSE where reading a property of undefined
\* throws; a path that ends at no function gives null
executeFakerPath(pathStr) ==
  LET path == Split(ReplaceFirst(pathStr, "faker.", ""), ".")
  IN  IF \E i \in 0..(Len(path) - 1) : FakerNode(SubSeq(path, 1, i)) = "undefined"
        THEN [ok |-> FALSE, vals |-> {}]
      ELSE IF FakerNode(path) = "function" THEN [ok |-> TRUE, vals |-> FakerCall(path)]
      ELSE [ok |-> TRUE, vals |-> {NullV}]

\* Seeder.resolveValue: the values a field definition may resolve to
resolveValue(def) ==
  IF ~def.obj THEN
    IF StartsWith(def.s, "faker.") THEN executeFakerPath(def.s)
    ELSE [ok |-> TRUE, vals |-> {StrV(def.s)}]
  ELSE IF def.s = "enum" /\ def.hasValues THEN
    IF def.values = <<>> THEN [ok |-> FALSE, vals |-> {}]
    ELSE [ok |-> TRUE, vals |-> {StrV(def.values[i]) : i \in 1..Len(def.values)}]
  ELSE IF def.s # "" /\ StartsWith(def.s, "faker.") THEN executeFakerPath(def.s)
  ELSE [ok |-> TRUE, vals |-> {NullV}]

\* ------------------------------------------------------------- the seeder

\* the select of generateRow: one existing value of the target column, chosen
\* at random, or no row
FkLookup(db, def) ==
  IF \/ ~HasTable(db, FkTargetTable(def))
     \/ FkTargetCol(def) \notin ColNames(db, FkTargetTable(def))
    THEN [ok |-> FALSE, vals |-> {}]
  ELSE IF db[FkTargetTable(def)].rows = <<>> THEN [ok |-> TRUE, vals |-> {NullV}]
  ELSE [ok |-> TRUE,
        vals |-> {db[FkTargetTable(def)].rows[k][FkTargetCol(def)] :
                    k \in 1..Len(db[FkTargetTable(def)].rows)}]

\* the mutant of generateField that records a foreign key as 0 when the
\* target table holds no row
generateFieldZeroFk(db, def) ==
  IF IsFkDef(def) THEN
    IF FkTarget(def) = "" \/ FkTargetTable(def) = "" \/ ~FkHasCol(def) \/ FkTargetCol(def) = ""
      THEN [ok |-> FALSE, vals |-> {}]
    ELSE IF FkLookup(db, def).ok /\ FkLookup(db, def).vals = {NullV}
      THEN [ok |-> TRUE, vals |-> {IntV(0)}]
    ELSE FkLookup(db, def)
  ELSE
    LET r == resolveValue(def)
    IN  [ok |-> r.ok,
         vals |-> {IF v.t = "bool" THEN IntV(v.n) ELSE v : v \in r.vals}]

\* one turn of the loop of Seeder.generateRow over a field that is no primary
\* key: the values the row may get for it; ok is FALSE where the code throws
generateField(db, def) ==
  IF IsFkDef(def) THEN
    IF FkTarget(def) = "" \/ FkTargetTable(def) = "" \/ ~FkHasCol(def) \/ FkTargetCol(def) = ""
      THEN [ok |-> FALSE, vals |-> {}]
    ELSE FkLookup(db, def)
  ELSE
    LET r == resolveValue(def)
    IN  [ok |-> r.ok,
         vals |-> {IF v.t = "bool" THEN IntV(v.n) ELSE v : v \in r.vals}]

IsPkDef(def) == ~def.obj /\ def.s = "pk"

RECURSIVE generateRowFrom(_, _, _)
\* the rows generateRow may build from the fields i.. of a table
generateRowFrom(db, fields, i) ==
  IF i > Len(fields) THEN {[c \in {} |-> NullV]}
  ELSE IF IsPkDef(fields[i].def) THEN generateRowFrom(db, fields, i + 1)
  ELSE {(fields[i].name :> v) @@ rest :
          v \in generateField(db, fields[i].def).vals,
          rest \in generateRowFrom(db, fields, i + 1)}

\* Seeder.generateRow: the rows it may return, or ok FALSE where it throws
generateRow(db, fields) ==
  IF \E i \in 1..Len(fields) :
       ~IsPkDef(fields[i].def) /\ ~generateField(db, fields[i].def).ok
    THEN [ok |-> FALSE, rows |-> {}]
  ELSE [ok |-> TRUE, rows |-> generateRowFrom(db, fields, 1)]

\* one turn of the loop of Seeder.clear: delete every row of the table, and
\* ignore the error if the delete raises one
clearTable(db, t) ==
  LET r == DeleteRows(db, t, 1..(IF HasTable(db, t) THEN Len(db[t].rows) ELSE 0))
  IN  [ok |-> TRUE, db |-> r.db]

RECURSIVE clearFrom(_, _, _)
\* Seeder.clear from table i on, run without interruption
clearFrom(db, schema, i) ==
  IF i > Len(schema) THEN [ok |-> TRUE, db |-> db]
  ELSE LET r == clearTable(db, schema[i].table)
       IN  IF r.ok THEN clearFrom(r.db, schema, i + 1) ELSE [ok |-> FALSE, db |-> r.db]

clear(db, schema) == clearFrom(db, schema, 1)

\* the mutant of seedCount that runs the row loop once more (i <= count)
seedCountOneMore(table) == IF table.seed = 0 THEN 0 ELSE table.seed + 1

\* const count = table.seed || 0 (an absent seed is 0)
seedCount(table) == table.seed

\* if (count === 0) continue: the first table from i on that is seeded,
\* Len + 1 when there is none
NextSeeded(schema, i) ==
  LET left == {j \in i..Len(schema) : seedCount(schema[j]) # 0}
  IN  IF left = {} THEN Len(schema) + 1 ELSE CHOOSE j \in left : \A k \in left : j <= k

\* ------------------------------------------------------------ the server

\* Number(x) of a request parameter (<<>> is undefined): NaN for undefined and
\* for text that is no number, 0 for the empty string
NumberOf(opt) ==
  IF opt = <<>> THEN [nan |-> TRUE, n |-> 0]
  ELSE IF opt[1] = "" THEN [nan |-> FALSE, n |-> 0]
  ELSE IF IsIntLiteral(opt[1]) THEN [nan |-> FALSE, n |-> IntLiteralVal(opt[1])]
  ELSE [nan |-> TRUE, n |-> 0]

\* Number(x) || d: NaN and 0 are falsy, every other number stands
OrDefault(num, d) == IF num.nan \/ num.n = 0 THEN d ELSE num.n

DefaultPage == 1
DefaultLimit == 10

pageNum(params) == OrDefault(NumberOf(params.page), DefaultPage)
limitNum(params) == OrDefault(NumberOf(params.limit), DefaultLimit)
\* the mutant of offsetOf that skips the rows of the requested page too
offsetOfNextPage(params) == pageNum(params) * limitNum(params)

\* const offset = (pageNum - 1) * limitNum
offsetOf(params) == (pageNum(params) - 1) * limitNum(params)

\* Math.ceil(a / b) for b # 0
CeilDiv(a, b) == IF b > 0 THEN 0 - ((0 - a) \div b) ELSE 0 - (a \div (0 - b))

\* the operator the list handler filters a field with: LIKE when the key is
\* not id and the definition is a string that contains none of "boolean",
\* "number", "int"; = otherwise
filterOp(fields, key) ==
  IF key = "id" THEN "="
  ELSE IF FindField(fields, key) # 0
          /\ ~fields[FindField(fields, key)].def.obj
          /\ ~Includes(fields[FindField(fields, key)].def.s, "boolean")
          /\ ~Includes(fields[FindField(fields, key)].def.s, "number")
          /\ ~Includes(fields[FindField(fields, key)].def.s, "int")
    THEN "like"
  ELSE "="

\* APPLY FILTERS: the predicates added to the count query and to the data
\* query, one for every parameter that names a field (or id)
RECURSIVE applyFilters(_, _, _)
applyFilters(fields, filters, i) ==
  IF i > Len(filters) THEN <<>>
  ELSE
    LET key == filters[i].key
        rest == applyFilters(fields, filters, i + 1)
    IN  IF FindField(fields, key) # 0 \/ key = "id"
          THEN <<[key |-> key,
                  op |-> filterOp(fields, key),
                  val |-> IF filterOp(fields, key) = "like"
                            THEN "%" \o filters[i].value \o "%"
                          ELSE filters[i].value]>> \o rest
        ELSE rest

\* a WHERE clause can be prepared: every key is a column of the table
WhereOk(db, t, preds) ==
  HasTable(db, t) /\ \A i \in 1..Len(preds) : preds[i].key \in ColNames(db, t)

\* the row satisfies every predicate
RowMatches(db, t, row, preds) ==
  \A i \in 1..Len(preds) :
    IF preds[i].op = "like" THEN SqlLike(row[preds[i].key], preds[i].val)
    ELSE SqlEq(ColOf(db, t, preds[i].key).type, row[preds[i].key], StrV(preds[i].val))

\* the indexes of the rows of t that satisfy the predicates
MatchingIdx(db, t, preds) ==
  {j \in 1..Len(db[t].rows) : RowMatches(db, t, db[t].rows[j], preds)}

\* the rows of t that satisfy the predicates, in rowid order
MatchingRows(db, t, preds) ==
  RemoveIdx(db[t].rows, (1..Len(db[t].rows)) \ MatchingIdx(db, t, preds))

\* LIMIT n OFFSET k: a negative limit is no limit, a negative offset is 0
LimitOffset(rows, n, k) ==
  LET from == IF k < 0 THEN 0 ELSE k
      upto == IF n < 0 THEN Len(rows) ELSE IF from + n > Len(rows) THEN Len(rows) ELSE from + n
  IN  SubSeq(rows, from + 1, upto)

\* the mutant of countQuery that counts the rows of the table without the filters
countQueryUnfiltered(db, t, preds) ==
  IF ~WhereOk(db, t, preds) THEN [ok |-> FALSE, total |-> 0]
  ELSE [ok |-> TRUE, total |-> Len(db[t].rows)]

\* select count(*) as total from t where ...
countQuery(db, t, preds) ==
  IF ~WhereOk(db, t, preds) THEN [ok |-> FALSE, total |-> 0]
  ELSE [ok |-> TRUE, total |-> Cardinality(MatchingIdx(db, t, preds))]

\* field.replace("Id", ""): the first "Id" of the field name is removed
fieldBaseName(field) == ReplaceFirst(field, "Id", "")

\* def.split(":")[1]?.split(".")[0]
RelTargetTable(def) == Split(Split(def.s, ":")[2], ".")[1]

\* getColumns: the declared field names of a table, none for an undeclared one
getColumns(schema, t) ==
  IF FindTable(schema, t) = 0 THEN <<>>
  ELSE [k \in 1..Len(schema[FindTable(schema, t)].fields) |->
          schema[FindTable(schema, t)].fields[k].name]

NoRelation == [kind |-> "none", field |-> "", target |-> "", columns |-> <<>>]

\* the first loop of applyRelation (BelongsTo): the first foreign key of the
\* current table, in field order, whose target table or whose field name
\* without "Id" is the token; a definition without a target table throws
belongsTo(schema, currentTable, targetParam) ==
  LET cur == FindTable(schema, currentTable)
      bt == IF cur = 0 THEN {}
            ELSE {k \in FkFields(schema[cur]) :
                    \/ targetParam = RelTargetTable(schema[cur].fields[k].def)
                    \/ targetParam = fieldBaseName(schema[cur].fields[k].name)}
  IN  IF bt = {} THEN NoRelation
      ELSE
        LET k == CHOOSE x \in bt : \A y \in bt : x <= y
            target == RelTargetTable(schema[cur].fields[k].def)
        IN  IF target = "" THEN [NoRelation EXCEPT !.kind = "throw"]
            ELSE [kind |-> "belongsTo", field |-> schema[cur].fields[k].name,
                  target |-> target, columns |-> getColumns(schema, target)]

\* the mutant of hasMany that takes the last foreign key into the current table
hasManyLastKey(schema, currentTable, targetParam) ==
  LET tgt == FindTable(schema, targetParam)
      hm == IF tgt = 0 THEN {}
            ELSE {k \in FkFields(schema[tgt]) :
                    RelTargetTable(schema[tgt].fields[k].def) = currentTable}
  IN  IF hm = {} THEN NoRelation
      ELSE
        LET k == CHOOSE x \in hm : \A y \in hm : x >= y
        IN  [kind |-> "hasMany", field |-> schema[tgt].fields[k].name,
             target |-> targetParam, columns |-> getColumns(schema, targetParam)]

\* the second loop of applyRelation (HasMany): the token names a declared
\* table, and the first of its foreign keys, in field order, that points to the
\* current table is used
hasMany(schema, currentTable, targetParam) ==
  LET tgt == FindTable(schema, targetParam)
      hm == IF tgt = 0 THEN {}
            ELSE {k \in FkFields(schema[tgt]) :
                    RelTargetTable(schema[tgt].fields[k].def) = currentTable}
  IN  IF hm = {} THEN NoRelation
      ELSE
        LET k == CHOOSE x \in hm : \A y \in hm : x <= y
        IN  [kind |-> "hasMany", field |-> schema[tgt].fields[k].name,
             target |-> targetParam, columns |-> getColumns(schema, targetParam)]

\* the mutant of applyRelation that tries has-many before belongs-to
applyRelationHasManyFirst(schema, currentTable, targetParam) ==
  IF hasMany(schema, currentTable, targetParam) # NoRelation
    THEN hasMany(schema, currentTable, targetParam)
  ELSE belongsTo(schema, currentTable, targetParam)

\* the mutant of applyRelation that throws when the token matches no relation
applyRelationStrict(schema, currentTable, targetParam) ==
  IF belongsTo(schema, currentTable, targetParam) # NoRelation
    THEN belongsTo(schema, currentTable, targetParam)
  ELSE IF hasMany(schema, currentTable, targetParam) # NoRelation
    THEN hasMany(schema, currentTable, targetParam)
  ELSE [NoRelation EXCEPT !.kind = "throw"]

\* MockServer.applyRelation: what the include token adds to the query.  The
\* foreign keys of the current table are tried first, in field order
\* (belongs-to), then the foreign keys of the table the token names (has-many);
\* the first return wins and a token that matches nothing leaves the query as
\* it is
applyRelation(schema, currentTable, targetParam) ==
  IF belongsTo(schema, currentTable, targetParam) # NoRelation
    THEN belongsTo(schema, currentTable, targetParam)
  ELSE hasMany(schema, currentTable, targetParam)

\* the relation of a request: none without an include parameter (an empty
\* include is falsy)
RelationOf(schema, t, include) ==
  IF include = <<>> \/ include[1] = "" THEN NoRelation
  ELSE applyRelation(schema, t, include[1])

\* the subquery of a relation can be prepared: the target table exists and has
\* the selected columns, the columns compared exist
RelationOk(db, t, rel) ==
  \/ rel.kind = "none"
  \/ /\ rel.kind \in {"belongsTo", "hasMany"}
     /\ HasTable(db, rel.target)
     /\ rel.columns # <<>>
     /\ \A k \in 1..Len(rel.columns) : rel.columns[k] \in ColNames(db, rel.target)
     /\ "id" \in ColNames(db, IF rel.kind = "belongsTo" THEN rel.target ELSE t)
     /\ rel.field \in ColNames(db, IF rel.kind = "belongsTo" THEN t ELSE rel.target)

\* a row restricted to the selected columns
Project(row, columns) == [c \in {columns[k] : k \in 1..Len(columns)} |-> row[c]]

\* the value embedded in a row under the include token: jsonObjectFrom gives
\* the first matching row of the target or null, jsonArrayFrom every matching
\* row
Embedded(db, row, rel) ==
  LET rows == db[rel.target].rows
      hits == IF rel.kind = "belongsTo"
                THEN {j \in 1..Len(rows) : row[rel.field] # NullV /\ rows[j]["id"] = row[rel.field]}
              ELSE {j \in 1..Len(rows) : rows[j][rel.field] # NullV /\ rows[j][rel.field] = row["id"]}
  IN  IF rel.kind = "belongsTo"
        THEN IF hits = {} THEN NullV
             ELSE [t |-> "obj", n |-> 0, s |-> "",
                   o |-> Project(rows[CHOOSE j \in hits : \A k \in hits : j <= k], rel.columns)]
      ELSE [t |-> "arr", n |-> 0, s |-> "",
            a |-> [k \in 1..Cardinality(hits) |->
                     Project(RemoveIdx(rows, (1..Len(rows)) \ hits)[k], rel.columns)]]

\* the rows of a select with the relation embedded under the include token
WithRelation(db, rows, rel, as) ==
  IF rel.kind = "none" THEN rows
  ELSE [j \in 1..Len(rows) |-> (as :> Embedded(db, rows[j], rel)) @@ rows[j]]

\* select * from t where ... [with the relation] limit n offset k
dataQuery(db, t, preds, rel, as, n, k) ==
  IF ~WhereOk(db, t, preds) \/ rel.kind = "throw" \/ ~RelationOk(db, t, rel)
    THEN [ok |-> FALSE, rows |-> <<>>]
  ELSE [ok |-> TRUE,
        rows |-> WithRelation(db, LimitOffset(MatchingRows(db, t, preds), n, k), rel, as)]

\* the fields transformResult treats as boolean: the definition, or the type of
\* an object definition, contains "boolean"
booleanFields(schema, t) ==
  IF FindTable(schema, t) = 0 THEN {}
  ELSE {schema[FindTable(schema, t)].fields[k].name :
          k \in {x \in 1..Len(schema[FindTable(schema, t)].fields) :
                   Includes(schema[FindTable(schema, t)].fields[x].def.s, "boolean")}}

\* Number(v) === 1 for a value of a response
NumberIsOne(v) ==
  \/ (v.t \in {"int", "bool"} /\ v.n = 1)
  \/ (v.t = "str" /\ IsIntLiteral(v.s) /\ IntLiteralVal(v.s) = 1)

\* the mutant of transformItem that decides by the value: every 0 or 1 of the
\* item is presented as a boolean
transformItemByValue(schema, t, item) ==
  [c \in DOMAIN item |->
     IF item[c].t = "int" /\ item[c].n \in {0, 1} THEN BoolV(item[c].n = 1) ELSE item[c]]

\* MockServer.transformResult for one item: each boolean field the item has
\* is presented as true or false
transformItem(schema, t, item) ==
  [c \in DOMAIN item |->
     IF c \in booleanFields(schema, t) THEN BoolV(NumberIsOne(item[c])) ELSE item[c]]

transformResult(schema, t, rows) == [j \in 1..Len(rows) |-> transformItem(schema, t, rows[j])]

\* ------------------------------------------------------------------ state

VARIABLES
  cfg,       \* config.schema, fixed when the process starts
  phase,     \* "setup", "seed", "serving" or "exited" (process.exit(1))
  db,        \* the store
  mode,      \* what the seeder does: "idle", "clear" or "run"
  ti,        \* the table the schema compiler or the seeder works on
  pending,   \* the rows generated for table ti and not yet inserted
  inflight,  \* the list request between its count query and its data query
  resp,      \* the response being returned, <<>> when there is none
  created,   \* the last create response, while no write has followed it
  writes,    \* write requests that have changed the store
  reseeds,   \* re-seeds triggered
  other      \* a second re-seed, triggered while the first is running: what
             \* its seeder does (mode, ti, pending) and how many there were (n)

vars == <<cfg, phase, db, mode, ti, pending, inflight, resp, created, writes, reseeds, other>>

\* a seeder of a second 's' handler at rest
OtherIdle(n) == [mode |-> "idle", ti |-> 1, pending |-> <<>>, n |-> n]

Init ==
  /\ cfg \in Configs
  /\ phase = "setup"
  /\ db = EmptyDb
  /\ mode = "idle"
  /\ ti = 1
  /\ pending = <<>>
  /\ inflight = <<>>
  /\ resp = <<>>
  /\ created = <<>>
  /\ writes = 0
  /\ reseeds = 0
  /\ other = OtherIdle(0)

\* a write invalidates the create response remembered for the round trip and
\* marks the list request in flight
Dirty(q) == IF q = <<>> THEN q ELSE <<[q[1] EXCEPT !.dirty = TRUE]>>

\* ---------------------------------------------------------------- startup

\* the columns MockDatabase.setup compiles for a table
TableColumns(fields) == [k \in 1..Len(fields) |-> parseField(fields[k].name, fields[k].def).col]

\* one turn of the loop of MockDatabase.setup: compile the fields and create
\* the table; an error ends the process (dev.ts: catch, process.exit(1)).
\* After the last table devCommand goes on to Seeder.run.
SetupTable ==
  /\ phase = "setup"
  /\ LET table == cfg[ti]
         r == CreateTable(db, table.table, TableColumns(table.fields))
     IN  IF (\E k \in 1..Len(table.fields) :
               ~parseField(table.fields[k].name, table.fields[k].def).ok) \/ ~r.ok
           THEN /\ phase' = "exited"
                /\ UNCHANGED <<db, mode, ti>>
         ELSE /\ db' = r.db
              /\ IF ti < Len(cfg)
                   THEN /\ ti' = ti + 1
                        /\ UNCHANGED <<phase, mode>>
                 ELSE IF NextSeeded(cfg, 1) > Len(cfg)
                   THEN /\ phase' = "serving"
                        /\ ti' = 1
                        /\ UNCHANGED mode
                 ELSE /\ phase' = "seed"
                      /\ mode' = "run"
                      /\ ti' = NextSeeded(cfg, 1)
  /\ UNCHANGED <<cfg, other, pending, inflight, resp, created, writes, reseeds>>

\* the mutant of SeederEnds that starts the server whether or not the seeder
\* succeeded
SeederEndsServing(ok) ==
  /\ mode' = "idle"
  /\ ti' = 1
  /\ pending' = <<>>
  /\ phase' = "serving"

\* the seeder has finished or failed.  At startup success starts the server and
\* failure exits; a re-seed runs in a stdin handler whose rejected promise
\* nobody catches, which ends the process too.
SeederEnds(ok) ==
  /\ mode' = "idle"
  /\ ti' = 1
  /\ pending' = <<>>
  /\ phase' = IF ok THEN "serving" ELSE "exited"

\* one turn of the inner loop of Seeder.run: generate a row for table ti
GenerateRow ==
  /\ phase \in {"seed", "serving"}
  /\ mode = "run"
  /\ resp = <<>>
  /\ Len(pending) < seedCount(cfg[ti])
  /\ LET g == generateRow(db, cfg[ti].fields)
     IN  IF ~g.ok THEN SeederEnds(FALSE)
         ELSE /\ \E row \in g.rows : pending' = Append(pending, row)
              /\ UNCHANGED <<phase, mode, ti>>
  /\ UNCHANGED <<cfg, other, db, inflight, resp, created, writes, reseeds>>

\* the insert of Seeder.run: the generated rows of table ti in one statement,
\* then on to the next seeded table
InsertBatch ==
  /\ phase \in {"seed", "serving"}
  /\ mode = "run"
  /\ resp = <<>>
  /\ Len(pending) = seedCount(cfg[ti])
  /\ LET r == InsertRows(db, cfg[ti].table, pending)
     IN  IF ~r.ok THEN SeederEnds(FALSE) /\ UNCHANGED <<db, inflight, created>>
         ELSE /\ db' = r.db
              /\ inflight' = Dirty(inflight)
              /\ created' = <<>>
              /\ IF NextSeeded(cfg, ti + 1) > Len(cfg) THEN SeederEnds(TRUE)
                 ELSE /\ ti' = NextSeeded(cfg, ti + 1)
                      /\ pending' = <<>>
                      /\ UNCHANGED <<phase, mode>>
  /\ UNCHANGED <<cfg, other, resp, writes, reseeds>>

\* ---------------------------------------------------------------- re-seed

\* the 's' key: a new Seeder begins with clear
PressS ==
  /\ phase = "serving"
  /\ mode = "idle"
  /\ resp = <<>>
  /\ reseeds < MaxReseeds
  /\ reseeds' = reseeds + 1
  /\ mode' = "clear"
  /\ ti' = 1
  /\ UNCHANGED <<cfg, other, phase, db, pending, inflight, resp, created, writes>>

\* one turn of the loop of Seeder.clear; after the last table the handler goes
\* on to Seeder.run
ClearTable ==
  /\ phase = "serving"
  /\ mode = "clear"
  /\ resp = <<>>
  /\ LET r == clearTable(db, cfg[ti].table)
     IN  /\ db' = r.db
         /\ inflight' = Dirty(inflight)
         /\ created' = <<>>
         /\ IF ~r.ok THEN SeederEnds(FALSE)
            ELSE IF ti < Len(cfg)
              THEN /\ ti' = ti + 1
                   /\ UNCHANGED <<phase, mode, pending>>
            ELSE IF NextSeeded(cfg, 1) > Len(cfg) THEN SeederEnds(TRUE)
            ELSE /\ mode' = "run"
                 /\ ti' = NextSeeded(cfg, 1)
                 /\ UNCHANGED <<phase, pending>>
  /\ UNCHANGED <<cfg, other, resp, writes, reseeds>>

\* the 's' key again while the re-seed of the first handler is suspended at a
\* store call: the stdin listener runs a second time, with a Seeder of its own,
\* on the same store (there is no lock)
OtherPressS ==
  /\ phase = "serving"
  /\ mode # "idle"
  /\ resp = <<>>
  /\ other.mode = "idle"
  /\ other.n < reseeds
  /\ other' = [mode |-> "clear", ti |-> 1, pending |-> <<>>, n |-> other.n + 1]
  /\ UNCHANGED <<cfg, phase, db, mode, ti, pending, inflight, resp, created, writes, reseeds>>

\* one turn of the loop of Seeder.clear in the second handler
OtherClearTable ==
  /\ phase = "serving"
  /\ other.mode = "clear"
  /\ resp = <<>>
  /\ db' = clearTable(db, cfg[other.ti].table).db
  /\ inflight' = Dirty(inflight)
  /\ created' = <<>>
  /\ other' = IF other.ti < Len(cfg) THEN [other EXCEPT !.ti = @ + 1]
              ELSE IF NextSeeded(cfg, 1) > Len(cfg) THEN OtherIdle(other.n)
              ELSE [other EXCEPT !.mode = "run", !.ti = NextSeeded(cfg, 1)]
  /\ UNCHANGED <<cfg, phase, mode, ti, pending, resp, writes, reseeds>>

\* one turn of the inner loop of Seeder.run in the second handler; an error is
\* a rejected promise nobody catches, which ends the process
OtherGenerateRow ==
  /\ phase = "serving"
  /\ other.mode = "run"
  /\ resp = <<>>
  /\ Len(other.pending) < seedCount(cfg[other.ti])
  /\ LET g == generateRow(db, cfg[other.ti].fields)
     IN  IF ~g.ok THEN /\ other' = OtherIdle(other.n)
                       /\ phase' = "exited"
         ELSE /\ \E row \in g.rows : other' = [other EXCEPT !.pending = Append(@, row)]
              /\ UNCHANGED phase
  /\ UNCHANGED <<cfg, db, mode, ti, pending, inflight, resp, created, writes, reseeds>>

\* the insert of Seeder.run in the second handler
OtherInsertBatch ==
  /\ phase = "serving"
  /\ other.mode = "run"
  /\ resp = <<>>
  /\ Len(other.pending) = seedCount(cfg[other.ti])
  /\ LET r == InsertRows(db, cfg[other.ti].table, other.pending)
     IN  IF ~r.ok THEN /\ other' = OtherIdle(other.n)
                       /\ phase' = "exited"
                       /\ UNCHANGED <<db, inflight, created>>
         ELSE /\ db' = r.db
              /\ inflight' = Dirty(inflight)
              /\ created' = <<>>
              /\ UNCHANGED phase
              /\ other' = IF NextSeeded(cfg, other.ti + 1) > Len(cfg) THEN OtherIdle(other.n)
                          ELSE [other EXCEPT !.ti = NextSeeded(cfg, other.ti + 1),
                                             !.pending = <<>>]
  /\ UNCHANGED <<cfg, mode, ti, pending, resp, writes, reseeds>>

\* ---------------------------------------------------------------- requests

\* the requests the clients send: <<>> is an absent parameter
PageInputs == {<<>>, <<"2">>, <<"0">>, <<"-1">>, <<"x">>}
LimitInputs == {<<>>, <<"1">>, <<"0">>, <<"-1">>, <<"x">>}
FilterValues == {"1", "true", "a"}
IdInputs == {"1", "9"}

\* a field name without a trailing "Id"
StripTrailingId(field) ==
  IF Len(field) >= 2 /\ SubSeq(field, Len(field) - 1, Len(field)) = "Id"
    THEN SubSeq(field, 1, Len(field) - 2)
  ELSE field

\* the include tokens a client sends: the table names, every foreign-key field
\* name without its first "Id" and without its trailing "Id", and a name that
\* is neither
IncludeTokens(schema) ==
  TableNames(schema)
  \cup UNION {{fieldBaseName(schema[i].fields[k].name) : k \in FkFields(schema[i])}
                \cup {StripTrailingId(schema[i].fields[k].name) : k \in FkFields(schema[i])} :
              i \in 1..Len(schema)}
  \cup {"nope"}

IncludeInputs(schema) == {<<>>} \cup {<<tok>> : tok \in IncludeTokens(schema)}

Filter(key, value) == [key |-> key, value |-> value]

\* the keys a filter names: the declared fields and an undeclared name
FilterKeys(table) ==
  {table.fields[k].name : k \in 1..Len(table.fields)} \cup {"nope"}

Params(include, page, limit, filters) ==
  [include |-> include, page |-> page, limit |-> limit, filters |-> filters]

\* list requests: every page with the limit absent or 1, every limit with the
\* page absent or 2, and every filter on the default page, with an include, and
\* on page 2 of limit 1
ListInputs(table) ==
  {Params(<<>>, pg, lm, <<>>) : pg \in PageInputs, lm \in {<<>>, <<"1">>}}
  \cup
  {Params(<<>>, pg, lm, <<>>) : pg \in {<<>>, <<"2">>}, lm \in LimitInputs}
  \cup
  {Params(v[1], v[2], v[3], <<Filter(key, value)>>) :
     v \in {<<<<>>, <<>>, <<>>>>, <<<<"author">>, <<>>, <<>>>>, <<<<>>, <<"2">>, <<"1">>>>},
     key \in FilterKeys(table), value \in FilterValues}

\* list requests with an include token: on the default page and on page 2 of
\* limit 1
IncludeListInputs(schema) ==
  {Params(inc, v[1], v[2], <<>>) :
     inc \in IncludeInputs(schema) \ {<<>>}, v \in {<<<<>>, <<>>>>, <<<<"2">>, <<"1">>>>}}

\* the values a request body gives a field: a usual one and an unusual one
BodyValue(def) ==
  IF IsFkDef(def) THEN IntV(1)
  ELSE IF Includes(def.s, "boolean") THEN IntV(1)
  ELSE IF ~def.obj /\ Includes(def.s, "int") THEN IntV(5)
  ELSE StrV("Bo")

OddBodyValue(def) ==
  IF IsFkDef(def) THEN IntV(9)
  ELSE IF Includes(def.s, "boolean") THEN BoolV(TRUE)
  ELSE IF ~def.obj /\ Includes(def.s, "int") THEN StrV("5")
  ELSE IntV(7)

NonPk(table) == {k \in 1..Len(table.fields) : ~IsPkDef(table.fields[k].def)}

\* request bodies: every declared field but the key, one field alone (with a
\* usual or an unusual value), and a key the table does not have
Bodies(table) ==
  {[c \in {table.fields[k].name : k \in NonPk(table)} |->
      BodyValue(table.fields[FindField(table.fields, c)].def)]}
  \cup {(table.fields[k].name :> BodyValue(table.fields[k].def)) : k \in NonPk(table)}
  \cup {(table.fields[k].name :> OddBodyValue(table.fields[k].def)) : k \in NonPk(table)}
  \cup {("nope" :> StrV("x"))}

Response(op, status, table, req, body) ==
  <<[op |-> op, status |-> status, table |-> table, req |-> req, body |-> body]>>

\* app.onError: an exception that escapes a handler becomes a 500 response
ServerError(op, table, req) == Response(op, 500, table, req, <<>>)

\* .where("id", "=", id): the rows whose id equals the path parameter; ok is
\* FALSE when the table has no id column
idQuery(st, t, id) ==
  IF ~WhereOk(st, t, <<[key |-> "id", op |-> "=", val |-> id]>>)
    THEN [ok |-> FALSE, idxs |-> {}]
  ELSE [ok |-> TRUE, idxs |-> MatchingIdx(st, t, <<[key |-> "id", op |-> "=", val |-> id]>>)]

\* GET /<table>, up to the count query: the filters are applied and the total
\* is read; the request then waits for its data query
ListCount(i, params) ==
  /\ phase = "serving"
  /\ resp = <<>>
  /\ inflight = <<>>
  /\ LET c == countQuery(db, cfg[i].table, applyFilters(cfg[i].fields, params.filters, 1))
     IN  IF ~c.ok
           THEN /\ resp' = ServerError("list", cfg[i].table, [params |-> params, dirty |-> FALSE])
                /\ UNCHANGED inflight
         ELSE /\ inflight' = <<[i |-> i, params |-> params, total |-> c.total, dirty |-> FALSE]>>
              /\ UNCHANGED resp
  /\ UNCHANGED <<cfg, other, phase, db, mode, ti, pending, created, writes, reseeds>>

\* the mutant of listResponse that insists on a snapshot: it raises an error
\* when the rows counted are no longer the rows in the store
listResponseSnapshot(st, schema, i, params, total) ==
  LET t == schema[i].table
      c == countQuery(st, t, applyFilters(schema[i].fields, params.filters, 1))
      d == dataQuery(st, t, applyFilters(schema[i].fields, params.filters, 1),
                     RelationOf(schema, t, params.include),
                     IF params.include = <<>> THEN "" ELSE params.include[1],
                     limitNum(params), offsetOf(params))
  IN  IF ~d.ok \/ ~c.ok \/ c.total # total THEN ServerError("list", t, params)
      ELSE Response("list", 200, t, params,
                    [data |-> transformResult(schema, t, d.rows),
                     meta |-> [total |-> total,
                               page |-> pageNum(params),
                               limit |-> limitNum(params),
                               totalPages |-> CeilDiv(total, limitNum(params))]])

\* the list response of a request whose count query returned total, from the
\* store st
listResponse(st, schema, i, params, total) ==
  LET t == schema[i].table
      d == dataQuery(st, t, applyFilters(schema[i].fields, params.filters, 1),
                     RelationOf(schema, t, params.include),
                     IF params.include = <<>> THEN "" ELSE params.include[1],
                     limitNum(params), offsetOf(params))
  IN  IF ~d.ok THEN ServerError("list", t, params)
      ELSE Response("list", 200, t, params,
                    [data |-> transformResult(schema, t, d.rows),
                     meta |-> [total |-> total,
                               page |-> pageNum(params),
                               limit |-> limitNum(params),
                               totalPages |-> CeilDiv(total, limitNum(params))]])

\* GET /<table>, from the data query on: the relation and the page are applied
\* and the response is built
ListData ==
  /\ phase = "serving"
  /\ resp = <<>>
  /\ inflight # <<>>
  /\ resp' = [listResponse(db, cfg, inflight[1].i, inflight[1].params, inflight[1].total)
                EXCEPT ![1].req = [params |-> inflight[1].params, dirty |-> inflight[1].dirty]]
  /\ inflight' = <<>>
  /\ UNCHANGED <<cfg, other, phase, db, mode, ti, pending, created, writes, reseeds>>

\* the response of GET /<table>/:id from the store st
detailResponse(st, schema, i, id, include) ==
  LET t == schema[i].table
      q == idQuery(st, t, id)
      rel == IF include = <<>> THEN NoRelation ELSE RelationOf(schema, t, include)
      req == [id |-> id, include |-> include]
  IN  IF ~q.ok \/ rel.kind = "throw" \/ ~RelationOk(st, t, rel) THEN ServerError("detail", t, req)
      ELSE IF q.idxs = {} THEN Response("detail", 404, t, req, <<>>)
      ELSE Response("detail", 200, t, req,
                    transformItem(schema, t,
                      WithRelation(st, <<st[t].rows[CHOOSE j \in q.idxs : \A k \in q.idxs : j <= k]>>,
                                   rel, IF include = <<>> THEN "" ELSE include[1])[1]))

\* GET /<table>/:id
Detail(i, id, include) ==
  /\ phase = "serving"
  /\ resp = <<>>
  /\ resp' = detailResponse(db, cfg, i, id, include)
  /\ UNCHANGED <<cfg, other, phase, db, mode, ti, pending, inflight, created, writes, reseeds>>

\* { id: result.insertId?.toString(), ...body }: the key as text, then the
\* fields of the body (a body that names id overrides it)
createEcho(insertId, body) == body @@ ("id" :> StrV(IntToStr(insertId)))

\* POST /<table>: insert the body; 201 with the echo of the body, or 400 when
\* the store rejects it
Create(i, body) ==
  /\ phase = "serving"
  /\ resp = <<>>
  /\ writes < MaxWrites
  /\ LET t == cfg[i].table
         r == InsertRows(db, t, <<body>>)
     IN  IF ~r.ok
           THEN /\ resp' = Response("create", 400, t, body, <<>>)
                /\ UNCHANGED <<db, inflight, created, writes>>
         ELSE /\ db' = r.db
              /\ writes' = writes + 1
              /\ inflight' = Dirty(inflight)
              /\ resp' = Response("create", 201, t, body,
                                  transformItem(cfg, t, createEcho(r.insertId, body)))
              /\ created' = resp'
  /\ UNCHANGED <<cfg, other, phase, mode, ti, pending, reseeds>>

\* PUT /<table>/:id: update the row; 404 when no row has the id, 400 when the
\* store rejects the update, else the echo of the id and the body
Update(i, id, body) ==
  /\ phase = "serving"
  /\ resp = <<>>
  /\ writes < MaxWrites
  /\ LET t == cfg[i].table
         q == idQuery(db, t, id)
         r == UpdateRows(db, t, q.idxs, body)
         req == [id |-> id, body |-> body]
     IN  IF ~q.ok \/ ~r.ok
           THEN /\ resp' = Response("update", 400, t, req, <<>>)
                /\ UNCHANGED <<db, inflight, created, writes>>
         ELSE IF r.n = 0
           THEN /\ resp' = Response("update", 404, t, req, <<>>)
                /\ UNCHANGED <<db, inflight, created, writes>>
         ELSE /\ db' = r.db
              /\ writes' = writes + 1
              /\ inflight' = Dirty(inflight)
              /\ created' = <<>>
              /\ resp' = Response("update", 200, t, req,
                                  transformItem(cfg, t, body @@ ("id" :> StrV(id))))
  /\ UNCHANGED <<cfg, other, phase, mode, ti, pending, reseeds>>

\* DELETE /<table>/:id: delete the row (and, by cascade, the rows that
\* reference it); 404 when no row has the id, 400 when the store raises an error
Delete(i, id) ==
  /\ phase = "serving"
  /\ resp = <<>>
  /\ writes < MaxWrites
  /\ LET t == cfg[i].table
         q == idQuery(db, t, id)
         r == DeleteRows(db, t, q.idxs)
         req == [id |-> id]
     IN  IF ~q.ok \/ ~r.ok
           THEN /\ resp' = Response("delete", 400, t, req, <<>>)
                /\ UNCHANGED <<db, inflight, created, writes>>
         ELSE IF r.n = 0
           THEN /\ resp' = Response("delete", 404, t, req, <<>>)
                /\ UNCHANGED <<db, inflight, created, writes>>
         ELSE /\ db' = r.db
              /\ writes' = writes + 1
              /\ inflight' = Dirty(inflight)
              /\ created' = <<>>
              /\ resp' = Response("delete", 200, t, req, <<>>)
  /\ UNCHANGED <<cfg, other, phase, mode, ti, pending, reseeds>>

\* the response has been sent
Deliver ==
  /\ resp # <<>>
  /\ resp' = <<>>
  /\ UNCHANGED <<cfg, other, phase, db, mode, ti, pending, inflight, created, writes, reseeds>>

\* the ids a client asks for: fixed ones and the one the last create returned
DetailIds == IdInputs \cup (IF created = <<>> THEN {} ELSE {created[1].body["id"].s})

\* the process from its start: setup, seeding, then the requests
Startup == SetupTable \/ GenerateRow \/ InsertBatch

\* the server is up and no response is on its way out
Idle == phase = "serving" /\ resp = <<>>

WriteRequest ==
  /\ Idle
  /\ writes < MaxWrites
  /\ \/ \E i \in 1..Len(cfg) : \E body \in Bodies(cfg[i]) : Create(i, body)
     \/ \E i \in 1..Len(cfg) : \E id \in IdInputs : \E body \in Bodies(cfg[i]) : Update(i, id, body)
     \/ \E i \in 1..Len(cfg) : \E id \in IdInputs : Delete(i, id)

ReadRequest ==
  /\ Idle
  /\ inflight = <<>>
  /\ \/ \E i \in 1..Len(cfg) : \E params \in ListInputs(cfg[i]) \cup IncludeListInputs(cfg) :
          ListCount(i, params)
     \/ \E i \in 1..Len(cfg) : \E id \in DetailIds : \E include \in IncludeInputs(cfg) :
          Detail(i, id, include)

\* a write request that arrives while no list request is inside its handler
SerialWrite == inflight = <<>> /\ WriteRequest

\* the server and its clients, one request at a time, nobody at the console
Next == Startup \/ ReadRequest \/ SerialWrite \/ ListData \/ Deliver

\* the server, clients that write and the 's' key of the console
NextReseed == Startup \/ PressS \/ ClearTable \/ WriteRequest \/ Deliver

Spec == Init /\ [][Next]_vars

SpecReseed == Init /\ [][NextReseed]_vars

\* the server and the 's' key pressed again while a re-seed is running
OtherSeeder == OtherPressS \/ OtherClearTable \/ OtherGenerateRow \/ OtherInsertBatch

NextOverlap == Startup \/ PressS \/ ClearTable \/ OtherSeeder

SpecOverlap == Init /\ [][NextOverlap]_vars

\* clients that write only while no re-seed is running
QuietWrite == mode = "idle" /\ WriteRequest

NextQuiet == Startup \/ PressS \/ ClearTable \/ QuietWrite \/ Deliver

SpecQuiet == Init /\ [][NextQuiet]_vars

\* the requests of clients that run while a re-seed or another request is
\* under way: the ids of the rows of before and after a re-seed, the first
\* page and the second page of one row
LiveIds == {"1", "2"}

LiveListInputs == {Params(<<>>, <<>>, <<>>, <<>>), Params(<<>>, <<"2">>, <<"1">>, <<>>)}

\* a list request (one at a time between its two queries) or a detail request
LiveRead ==
  /\ Idle
  /\ inflight = <<>>
  /\ \/ \E i \in 1..Len(cfg) : \E params \in LiveListInputs : ListCount(i, params)
     \/ \E i \in 1..Len(cfg) : \E id \in LiveIds : Detail(i, id, <<>>)

\* a create with every field but the key, or a delete; either may run between
\* the two queries of a list request and between the steps of a re-seed
LiveWrite ==
  /\ Idle
  /\ writes < MaxWrites
  /\ \/ \E i \in 1..Len(cfg) :
          Create(i, [c \in {cfg[i].fields[k].name : k \in NonPk(cfg[i])} |->
                       BodyValue(cfg[i].fields[FindField(cfg[i].fields, c)].def)])
     \/ \E i \in 1..Len(cfg) : \E id \in LiveIds : Delete(i, id)

\* the server with its clients and the console all at once
NextLive == Startup \/ PressS \/ ClearTable \/ LiveRead \/ LiveWrite \/ ListData \/ Deliver

SpecLive == Init /\ [][NextLive]_vars

\* ------------------------------------------------------------------ claims

\* every foreign-key value of every row is null or a value of the target
\* column that a row of the target table holds
FkValuesPresent ==
  \A i \in 1..Len(cfg) : \A k \in FkFields(cfg[i]) :
    LET f == cfg[i].fields[k]
    IN  \A j \in 1..Len(db[cfg[i].table].rows) :
          LET v == db[cfg[i].table].rows[j][f.name]
          IN  v # NullV =>
                \E r \in 1..Len(db[FkTargetTable(f.def)].rows) :
                  db[FkTargetTable(f.def)].rows[r][FkTargetCol(f.def)] = v

\* the server has started and nothing has changed the store since
JustStarted == phase = "serving" /\ writes = 0 /\ reseeds = 0

\* C1: for a schema whose foreign keys all name declared tables, after startup
\* (setup, then Seeder.run) each table holds exactly its seed count of rows and
\* every foreign-key value is null or a value the target column holds in the
\* target table
C1_StartupSeedsEveryTable ==
  (JustStarted /\ FkTargetsDeclared(cfg)) =>
    /\ \A i \in 1..Len(cfg) : Len(db[cfg[i].table].rows) = cfg[i].seed
    /\ FkValuesPresent

\* startup of the blog schema ended with a post that references a user
C1_Witness ==
  /\ JustStarted
  /\ cfg = CfgBlog
  /\ Len(db["posts"].rows) = 2
  /\ db["posts"].rows[2]["authorId"] = IntV(2)

\* the fields of table i generate without error for a reason other than an
\* empty foreign-key target: every foreign key names a declared table and
\* column, every other field resolves
Generatable(i) ==
  \A k \in 1..Len(cfg[i].fields) :
    LET def == cfg[i].fields[k].def
    IN  IF IsFkDef(def)
          THEN /\ FkTarget(def) # ""
               /\ FkHasCol(def)
               /\ \E j \in 1..Len(cfg) :
                    /\ cfg[j].table = FkTargetTable(def)
                    /\ FindField(cfg[j].fields, FkTargetCol(def)) # 0
        ELSE IsPkDef(def) \/ resolveValue(def).ok

C3_ClearTwice ==
  LET once == clear(db, cfg)
      twice == clear(once.db, cfg)
  IN  /\ once.ok
      /\ twice.ok
      /\ \A i \in 1..Len(cfg) :
           HasTable(db, cfg[i].table) =>
             (once.db[cfg[i].table].rows = <<>> /\ twice.db[cfg[i].table].rows = <<>>)

\* the response on its way out is a successful list response (no write ran
\* between its count query and its data query)
ListOk ==
  /\ resp # <<>>
  /\ resp[1].op = "list"
  /\ resp[1].status = 200
  /\ ~resp[1].req.dirty

\* a list request is inside the handler, with exactly one filter parameter
OneFilter == inflight # <<>> /\ Len(inflight[1].params.filters) = 1

\* C4: the response of POST /<table> and the response of the following
\* GET /<table>/<returned id> (no write in between) hold equal values for the
\* primary key and for every declared column
C4_CreateThenDetail ==
  (/\ created # <<>>
   /\ resp # <<>>
   /\ resp[1].op = "detail"
   /\ resp[1].table = created[1].table
   /\ resp[1].req = [id |-> created[1].body["id"].s, include |-> <<>>])
  => /\ resp[1].status = 200
     /\ \A c \in ColNames(db, resp[1].table) :
          /\ c \in DOMAIN created[1].body
          /\ c \in DOMAIN resp[1].body
          /\ created[1].body[c] = resp[1].body[c]

\* the number of items of page p of the list request r, answered from the
\* store as it is
PageCount(r, p) ==
  Len(listResponse(db, cfg, FindTable(cfg, r.table),
                   [r.req.params EXCEPT !.page = <<NatToStr(p)>>],
                   r.body.meta.total)[1].body.data)

RECURSIVE SumPages(_, _)
\* the items of pages 1..p of the list request r
SumPages(r, p) == IF p <= 0 THEN 0 ELSE PageCount(r, p) + SumPages(r, p - 1)

\* C5: for a page > 0 and a limit > 0, a list response holds at most limit
\* items, and the item counts of pages 1..meta.totalPages of the same request
\* (same filters, same store) sum to meta.total
C5_PagesSumToTotal ==
  (/\ ListOk
   /\ pageNum(resp[1].req.params) > 0
   /\ limitNum(resp[1].req.params) > 0)
  => /\ Len(resp[1].body.data) <= resp[1].body.meta.limit
     /\ SumPages(resp[1], resp[1].body.meta.totalPages) = resp[1].body.meta.total

\* page 2 of three pages of one user each, after a user was created
C5_Witness ==
  /\ ListOk
  /\ resp[1].table = "users"
  /\ resp[1].req.params = Params(<<>>, <<"2">>, <<"1">>, <<>>)
  /\ resp[1].body.meta.total = 3
  /\ resp[1].body.meta.totalPages = 3
  /\ Len(resp[1].body.data) = 1

\* the parameter is given and reads as a positive number
PositiveParam(opt) == opt # <<>> /\ IsIntLiteral(opt[1]) /\ IntLiteralVal(opt[1]) > 0

\* C6: for every page and limit parameter (absent, non-numeric, zero, negative
\* or positive) the effective page is the parameter when it is a positive
\* number and 1 otherwise, the effective limit the parameter or 10 by the same
\* rule, so that page >= 1, limit >= 1 and offset >= 0
C6_EffectivePaging ==
  inflight # <<>> =>
    LET p == inflight[1].params
    IN  /\ pageNum(p) = (IF PositiveParam(p.page) THEN IntLiteralVal(p.page[1]) ELSE DefaultPage)
        /\ limitNum(p) = (IF PositiveParam(p.limit) THEN IntLiteralVal(p.limit[1]) ELSE DefaultLimit)
        /\ pageNum(p) >= 1
        /\ limitNum(p) >= 1
        /\ offsetOf(p) >= 0

\* C7: the list filter on a declared field is LIKE '%value%' exactly when the
\* column the schema compiler gives the field is text and the key is not id,
\* and equality otherwise
C7_FilterOperatorByColumnType ==
  inflight # <<>> =>
    LET fields == cfg[inflight[1].i].fields
        preds == applyFilters(fields, inflight[1].params.filters, 1)
    IN  \A k \in 1..Len(preds) :
          FindField(fields, preds[k].key) # 0 =>
            LET col == parseField(preds[k].key, fields[FindField(fields, preds[k].key)].def).col
            IN  IF col.type = "text" /\ preds[k].key # "id"
                  THEN preds[k].op = "like" /\ preds[k].val = "%" \o inflight[1].params.filters[k].value \o "%"
                ELSE preds[k].op = "=" /\ preds[k].val = inflight[1].params.filters[k].value

\* C8: a list request that filters a text field by a substring of a row's
\* value selects that row (before pagination), and a filter id=v selects only
\* rows whose id is exactly v
C8_SubstringAndIdFilters ==
  OneFilter =>
    LET t == cfg[inflight[1].i].table
        fields == cfg[inflight[1].i].fields
        f == inflight[1].params.filters[1]
        rows == db[t].rows
        matched == MatchingIdx(db, t, applyFilters(fields, inflight[1].params.filters, 1))
    IN  /\ (f.key # "id" /\ FindField(fields, f.key) # 0 /\ ColOf(db, t, f.key).type = "text") =>
             \A j \in 1..Len(rows) :
               (rows[j][f.key].t = "str" /\ Includes(rows[j][f.key].s, f.value)) => j \in matched
        /\ f.key = "id" =>
             \A j \in matched :
               IsIntLiteral(f.value) /\ rows[j]["id"] = IntV(IntLiteralVal(f.value))

\* C9: a list request that filters a boolean field by true selects exactly the
\* rows presented with true for the field, and by false exactly the rows
\* presented with false
C9_BooleanFilter ==
  OneFilter =>
    LET t == cfg[inflight[1].i].table
        f == inflight[1].params.filters[1]
        rows == db[t].rows
        matched == MatchingIdx(db, t, applyFilters(cfg[inflight[1].i].fields,
                                                   inflight[1].params.filters, 1))
    IN  (f.key \in booleanFields(cfg, t) /\ f.value \in {"true", "false"}) =>
          matched = {j \in 1..Len(rows) :
                       transformItem(cfg, t, rows[j])[f.key] = BoolV(f.value = "true")}

\* C10: in a list response meta.total is the number of rows that satisfy the
\* predicates of the parameters that name a declared field (or id), which is
\* the number of rows of the data query without its pagination, whatever the
\* page, the limit, the include and the other parameters are, and
\* meta.totalPages is ceil(meta.total / meta.limit)
C10_TotalCountsFilteredRows ==
  ListOk =>
    LET r == resp[1]
        t == r.table
        p == r.req.params
        fields == cfg[FindTable(cfg, t)].fields
        named == SelectSeq(p.filters, LAMBDA f : FindField(fields, f.key) # 0 \/ f.key = "id")
        preds == applyFilters(fields, named, 1)
        all == dataQuery(db, t, applyFilters(fields, p.filters, 1), RelationOf(cfg, t, p.include),
                         IF p.include = <<>> THEN "" ELSE p.include[1], 0 - 1, 0)
    IN  /\ r.body.meta.total = Cardinality(MatchingIdx(db, t, preds))
        /\ all.ok
        /\ r.body.meta.total = Len(all.rows)
        /\ r.body.meta.totalPages = CeilDiv(r.body.meta.total, r.body.meta.limit)

\* page 2 of limit 1 of the users whose id is 1: one of the two users counts
C10_Witness ==
  /\ ListOk
  /\ resp[1].table = "users"
  /\ resp[1].req.params = Params(<<>>, <<"2">>, <<"1">>, <<Filter("id", "1")>>)
  /\ Len(db["users"].rows) = 2
  /\ resp[1].body.meta.total = 1
  /\ resp[1].body.meta.totalPages = 1
  /\ resp[1].body.data = <<>>

\* a list or detail response that succeeded
ReadOk ==
  /\ resp # <<>>
  /\ resp[1].op \in {"list", "detail"}
  /\ resp[1].status = 200

\* the include parameter of the request answered, <<>> when absent
RespInclude == IF resp[1].op = "list" THEN resp[1].req.params.include ELSE resp[1].req.include

\* the top-level rows of the response
RespRows == IF resp[1].op = "list" THEN resp[1].body.data ELSE <<resp[1].body>>

\* a successful list or detail response to a request with an include token
IncludeOk == ReadOk /\ RespInclude # <<>>

\* the foreign keys of table i that the token matches as belongs-to
BelongsToMatches(i, tok) ==
  {k \in FkFields(cfg[i]) :
     \/ tok = FkTargetTable(cfg[i].fields[k].def)
     \/ tok = fieldBaseName(cfg[i].fields[k].name)}

\* the foreign keys of the table the token names that point to table t
HasManyMatches(t, tok) ==
  IF FindTable(cfg, tok) = 0 THEN {}
  ELSE {k \in FkFields(cfg[FindTable(cfg, tok)]) :
          FkTargetTable(cfg[FindTable(cfg, tok)].fields[k].def) = t}

\* C11: an include token is resolved as belongs-to through the first foreign
\* key of the source table, in declaration order, that it matches; only when
\* it matches none is it resolved as has-many with the token read as a table
\* name; exactly one relation is embedded.  A token that matches both ways
\* (the table's own name with a self-referencing key) is belongs-to
C11_BelongsToBeforeHasMany ==
  IncludeOk =>
    LET t == resp[1].table
        i == FindTable(cfg, t)
        tok == RespInclude[1]
        bt == BelongsToMatches(i, tok)
        first == CHOOSE k \in bt : \A y \in bt : k <= y
    IN  \A j \in 1..Len(RespRows) :
          LET row == RespRows[j]
          IN  /\ DOMAIN row \subseteq ColNames(db, t) \cup {tok}
              /\ bt # {} =>
                   /\ row[tok].t \in {"obj", "null"}
                   /\ row[tok] = Embedded(db, row,
                        [kind |-> "belongsTo", field |-> cfg[i].fields[first].name,
                         target |-> FkTargetTable(cfg[i].fields[first].def),
                         columns |-> getColumns(cfg, FkTargetTable(cfg[i].fields[first].def))])
              /\ (bt = {} /\ HasManyMatches(t, tok) # {}) => row[tok].t = "arr"

\* a node that has a parent is read with include=nodes, the name of its own
\* table: the parent is embedded, not the children
C11_Witness ==
  /\ IncludeOk
  /\ cfg = CfgTree
  /\ resp[1].op = "detail"
  /\ resp[1].table = "nodes"
  /\ RespInclude = <<"nodes">>
  /\ resp[1].body["nodes"].t = "obj"
  /\ resp[1].body["nodes"].o["id"] = resp[1].body["parentId"]

\* the answer to a list or detail request with an include token, whatever its
\* status
IncludeAnswered ==
  /\ resp # <<>>
  /\ resp[1].op \in {"list", "detail"}
  /\ RespInclude # <<>>

\* C12: for a foreign key fk:<T>.<c> into a declared column c of a declared
\* table T, a belongs-to include raises no error and embeds under the token
\* the row of T whose column c equals the foreign-key value of the source row,
\* or null when there is none, with exactly the columns declared for T
C12_BelongsToByTargetColumn ==
  IncludeAnswered =>
    LET t == resp[1].table
        i == FindTable(cfg, t)
        tok == RespInclude[1]
        bt == BelongsToMatches(i, tok)
        f == cfg[i].fields[CHOOSE k \in bt : \A y \in bt : k <= y]
        T == FkTargetTable(f.def)
        c == FkTargetCol(f.def)
    IN  (/\ bt # {}
         /\ FindTable(cfg, T) # 0
         /\ FindField(cfg[FindTable(cfg, T)].fields, c) # 0)
        => /\ resp[1].status # 500
           /\ resp[1].status = 200 =>
                \A j \in 1..Len(RespRows) :
                  LET row == RespRows[j]
                      hits == {x \in 1..Len(db[T].rows) :
                                 row[f.name] # NullV /\ db[T].rows[x][c] = row[f.name]}
                  IN  IF hits = {} THEN row[tok] = NullV
                      ELSE /\ row[tok].t = "obj"
                           /\ \E x \in hits : row[tok].o = Project(db[T].rows[x], getColumns(cfg, T))

IncludeUnmatched ==
  /\ IncludeAnswered
  /\ RespInclude[1] # ""
  /\ BelongsToMatches(FindTable(cfg, resp[1].table), RespInclude[1]) = {}
  /\ HasManyMatches(resp[1].table, RespInclude[1]) = {}

\* the response to the request just answered had it carried no include
WithoutInclude ==
  LET i == FindTable(cfg, resp[1].table)
  IN  IF resp[1].op = "detail" THEN detailResponse(db, cfg, i, resp[1].req.id, <<>>)
      ELSE LET params == [resp[1].req.params EXCEPT !.include = <<>>]
               c == countQuery(db, cfg[i].table, applyFilters(cfg[i].fields, params.filters, 1))
           IN  IF ~c.ok THEN ServerError("list", cfg[i].table, params)
               ELSE listResponse(db, cfg, i, params, c.total)

\* C14: a list or detail request whose include token matches neither a
\* belongs-to of the table nor a has-many into it gets the status and the body
\* of the same request without the include; no error comes of the token
C14_UnmatchedIncludeIgnored ==
  IncludeUnmatched =>
    /\ resp[1].status = WithoutInclude[1].status
    /\ resp[1].body = WithoutInclude[1].body

\* a list request with the token "nope" has been answered with rows
C14_Witness ==
  /\ IncludeUnmatched
  /\ RespInclude = <<"nope">>
  /\ resp[1].op = "list"
  /\ resp[1].status = 200
  /\ Len(resp[1].body.data) > 0

\* C15: besides the name of the target table, the belongs-to token of a
\* foreign key is exactly the field name without one trailing "Id": a token
\* that is no table name and no target of a key of the table embeds a value
\* under its name if and only if it is some foreign key's name with the
\* trailing "Id" removed (the unchanged name when it does not end in "Id")
C15_TokenIsNameWithoutTrailingId ==
  IncludeOk =>
    LET i == FindTable(cfg, resp[1].table)
        tok == RespInclude[1]
    IN  (/\ tok # ""
         /\ FindTable(cfg, tok) = 0
         /\ \A k \in FkFields(cfg[i]) : tok # FkTargetTable(cfg[i].fields[k].def))
        => \A j \in 1..Len(RespRows) :
             (tok \in DOMAIN RespRows[j])
               <=> (\E k \in FkFields(cfg[i]) : tok = StripTrailingId(cfg[i].fields[k].name))

\* the fields of table t declared with a generator path that contains
\* "boolean", as a string or as the type of an object definition
DeclaredBoolean(t) ==
  {cfg[FindTable(cfg, t)].fields[k].name :
     k \in {x \in 1..Len(cfg[FindTable(cfg, t)].fields) :
              LET def == cfg[FindTable(cfg, t)].fields[x].def
              IN  ~IsFkDef(def) /\ Includes(def.s, "boolean")}}

\* a top-level row of a response is the presentation of the row before it:
\* a declared boolean is true for a stored 1 and false for a stored 0, and
\* every other field is as it was
PresentationOf(t, shown, before, stored) ==
  \A c \in DOMAIN before :
    IF c \in DeclaredBoolean(t)
      THEN /\ c \in DOMAIN stored /\ stored[c] \in {IntV(1), StrV("1")} => shown[c] = BoolV(TRUE)
           /\ c \in DOMAIN stored /\ stored[c] \in {IntV(0), StrV("0")} => shown[c] = BoolV(FALSE)
    ELSE shown[c] = before[c]

\* the rows a successful list or detail response was made from, as the data
\* query returned them
QueriedRows ==
  LET t == resp[1].table
      i == FindTable(cfg, t)
  IN  IF resp[1].op = "list"
        THEN LET params == resp[1].req.params
             IN  dataQuery(db, t, applyFilters(cfg[i].fields, params.filters, 1),
                           RelationOf(cfg, t, params.include),
                           IF params.include = <<>> THEN "" ELSE params.include[1],
                           limitNum(params), offsetOf(params)).rows
      ELSE LET q == idQuery(db, t, resp[1].req.id)
               include == resp[1].req.include
           IN  WithRelation(db, <<db[t].rows[CHOOSE x \in q.idxs : \A y \in q.idxs : x <= y]>>,
                            RelationOf(cfg, t, include),
                            IF include = <<>> THEN "" ELSE include[1])

\* the stored row a successful response speaks of: the row read, the row just
\* inserted (the last of the table) or the row updated
StoredFor(j) ==
  LET t == resp[1].table
      rows == db[t].rows
  IN  IF resp[1].op = "create" THEN rows[Len(rows)]
      ELSE IF resp[1].op = "update"
        THEN rows[CHOOSE x \in idQuery(db, t, resp[1].req.id).idxs : TRUE]
      ELSE QueriedRows[j]

\* the top-level row of a successful response before the presentation step
BeforeFor(j) ==
  IF resp[1].op = "create"
    THEN createEcho(db[resp[1].table].seq, resp[1].req)
  ELSE IF resp[1].op = "update"
    THEN resp[1].req.body @@ ("id" :> StrV(resp[1].req.id))
  ELSE QueriedRows[j]

BooleansShown(t, row) ==
  \A c \in DeclaredBoolean(t) \cap DOMAIN row : row[c].t = "bool"

\* C17: a row embedded through include, the belongs-to object as well as each
\* element of a has-many array, shows the boolean fields of its own table as
\* true or false, as a top-level row of that table does
C17_EmbeddedBooleansPresented ==
  IncludeOk =>
    LET tok == RespInclude[1]
        rel == RelationOf(cfg, resp[1].table, RespInclude)
    IN  rel.kind \in {"belongsTo", "hasMany"} =>
          \A j \in 1..Len(RespRows) :
            LET e == RespRows[j][tok]
            IN  /\ e.t = "obj" => BooleansShown(rel.target, e.o)
                /\ e.t = "arr" => \A x \in 1..Len(e.a) : BooleansShown(rel.target, e.a[x])

\* a generator path resolves: walking it ends at a generator function
PathResolves(pathStr) ==
  /\ StartsWith(pathStr, "faker.")
  /\ executeFakerPath(pathStr).ok
  /\ executeFakerPath(pathStr).vals # {NullV}

\* a malformed field definition: a foreign key without exactly one
\* table.column pair, an object whose type is neither an enum with values nor
\* a generator path that resolves, or a string generator path that does not
\* resolve
MalformedDef(def) ==
  IF def.obj
    THEN ~(def.s = "enum" /\ def.hasValues /\ def.values # <<>>) /\ ~PathResolves(def.s)
  ELSE IF StartsWith(def.s, "fk:")
    THEN \/ Len(Split(FkTarget(def), ".")) # 2
         \/ \E k \in 1..2 : Split(FkTarget(def), ".")[k] = ""
  ELSE StartsWith(def.s, "faker.") /\ ~PathResolves(def.s)

MalformedSchema ==
  \E i \in 1..Len(cfg) : \E k \in 1..Len(cfg[i].fields) : MalformedDef(cfg[i].fields[k].def)

\* C18: with a malformed field definition in the schema, whatever the seed
\* count of its table, startup fails and the server never serves
C18_MalformedSchemaNeverServes == MalformedSchema => phase # "serving"

\* C19: when some foreign key of the schema names a table the schema does
\* not declare, whatever the seed count of the referencing table, startup
\* fails and the server never serves
C19_UndeclaredTargetNeverServes == ~FkTargetsDeclared(cfg) => phase # "serving"

\* every table of the schema has been created in store st
AllSetUp(st) == \A i \in 1..Len(cfg) : HasTable(st, cfg[i].table)

\* every table of the schema holds as many rows in store st as it is to be
\* seeded with
AllSeeded(st) ==
  \A i \in 1..Len(cfg) : HasTable(st, cfg[i].table) /\ Len(st[cfg[i].table].rows) = seedCount(cfg[i])

\* the step of startup about to be taken raises an error: a field of the table
\* does not compile or the table cannot be created, a row cannot be generated,
\* or the rows cannot be inserted
StartupStepFails ==
  \/ /\ phase = "setup"
     /\ \/ \E k \in 1..Len(cfg[ti].fields) :
             ~parseField(cfg[ti].fields[k].name, cfg[ti].fields[k].def).ok
        \/ ~CreateTable(db, cfg[ti].table, TableColumns(cfg[ti].fields)).ok
  \/ /\ phase = "seed"
     /\ Len(pending) < seedCount(cfg[ti])
     /\ ~generateRow(db, cfg[ti].fields).ok
  \/ /\ phase = "seed"
     /\ Len(pending) = seedCount(cfg[ti])
     /\ ~InsertRows(db, cfg[ti].table, pending).ok

\* C20: the server begins to serve only when every table has been set up and
\* then every table seeded; seeding begins only when every table is set up; a
\* step of setup or seeding that raises an error ends the process, which then
\* never serves; and a response is only ever produced by a serving process
C20_ServeOnlyAfterSetupAndSeed ==
  [][/\ (phase # "serving" /\ phase' = "serving") => (AllSetUp(db') /\ AllSeeded(db'))
     /\ (phase = "setup" /\ phase' = "seed") => AllSetUp(db')
     /\ phase # "setup" => phase' # "setup"
     /\ (phase \in {"setup", "seed"} /\ StartupStepFails) => phase' = "exited"
     /\ phase = "exited" => UNCHANGED vars
     /\ (phase # "serving" \/ phase' # "serving") => (resp' = <<>> /\ inflight' = <<>>)]_vars

\* seeding failed after a table had been seeded: the process has exited with
\* rows in its store and no response
C20_Witness ==
  /\ phase = "exited"
  /\ \E t \in DOMAIN db : db[t].rows # <<>>
  /\ resp = <<>>

\* a body names a column the table does not have
BadColumn(i, body) == \E c \in DOMAIN body : FindField(cfg[i].fields, c) = 0

\* a body gives a foreign key into the id of a declared table a value that is
\* the id of no row of that table
DanglingKey(i, body) ==
  \E k \in FkFields(cfg[i]) :
    LET f == cfg[i].fields[k]
        target == FkTargetTable(f.def)
    IN  /\ f.name \in DOMAIN body
        /\ body[f.name] # NullV
        /\ target \in TableNames(cfg)
        /\ FkTargetCol(f.def) = "id"
        /\ "id" \in ColNames(db, target)
        /\ \A j \in 1..Len(db[target].rows) :
             db[target].rows[j]["id"] # Affinity("integer", body[f.name])

\* a response to a create, update or delete is being produced
WriteAnswered ==
  resp = <<>> /\ resp' # <<>> /\ resp'[1].op \in {"create", "update", "delete"}

\* C21: a create or update the store rejects (a column the table does not
\* have, a foreign key naming no existing row) is answered with the failure
\* status 400; with any failure answer to a write the contents of every table
\* are as before the request and the server goes on serving
C21_RejectedWriteChangesNothing ==
  [][WriteAnswered =>
       LET r == resp'[1]
           i == FindTable(cfg, r.table)
       IN  /\ (r.op = "create" /\ (BadColumn(i, r.req) \/ DanglingKey(i, r.req)))
                => r.status = 400
           /\ (/\ r.op = "update"
               /\ \/ BadColumn(i, r.req.body)
                  \/ /\ DanglingKey(i, r.req.body)
                     /\ "id" \in ColNames(db, r.table)
                     /\ idQuery(db, r.table, r.req.id).idxs # {})
                => r.status = 400
           /\ r.status >= 400 => (db' = db /\ phase' = "serving")]_vars

\* a create whose foreign key names no row has been answered with 400 while
\* the table it points to holds rows
C21_Witness ==
  /\ resp # <<>>
  /\ resp[1].op = "create"
  /\ resp[1].status = 400
  /\ phase = "serving"
  /\ cfg = CfgBlog
  /\ resp[1].table = "posts"
  /\ resp[1].req = ("authorId" :> IntV(9))
  /\ db["users"].rows # <<>>

\* the rows of table t whose id is the number the path parameter writes
RowsNamed(t, id) ==
  {j \in 1..Len(db[t].rows) : IsIntLiteral(id) /\ db[t].rows[j]["id"] = IntV(IntLiteralVal(id))}

\* a response to a request that addresses one row of a table with an id
\* column is being produced
RowAnswered ==
  /\ resp = <<>>
  /\ resp' # <<>>
  /\ resp'[1].op \in {"detail", "update", "delete"}
  /\ "id" \in ColNames(db, resp'[1].table)

\* C22: detail, update and delete of an id that names no row answer not-found
\* and leave every table as it was; delete of an id that names a row removes
\* exactly that row from its table and answers with success
C22_NotFoundOrDeleted ==
  [][RowAnswered =>
       LET r == resp'[1]
           named == RowsNamed(r.table, r.req.id)
       IN  /\ named = {} => (r.status = 404 /\ db' = db)
           /\ (r.op = "delete" /\ named # {})
                => /\ r.status = 200
                   /\ db'[r.table].rows = RemoveIdx(db[r.table].rows, named)]_vars

\* C23: the body of a successful update, also of one that sets only some of
\* the fields, is the row as persisted, every declared column with its stored
\* value as a following detail request returns it; and so is the body of a
\* successful create, with the key the server assigned
C23_EchoIsPersistedRow ==
  (/\ resp # <<>>
   /\ resp[1].op \in {"create", "update"}
   /\ resp[1].status \in {200, 201}
   /\ "id" \in ColNames(db, resp[1].table))
  => LET id == IF resp[1].op = "create" THEN resp[1].body["id"].s ELSE resp[1].req.id
         d == detailResponse(db, cfg, FindTable(cfg, resp[1].table), id, <<>>)
     IN  /\ d[1].status = 200
         /\ resp[1].body = d[1].body

\* the column type a field definition is to compile to, by its kind: integer
\* for a primary or foreign key, text for an enum, for a generator (a string
\* or an object type with the prefix "faker.") integer when the path contains
\* "number", "int" or "boolean" and text otherwise, text for a literal
TypeByKind(def) ==
  IF ~def.obj /\ (def.s = "pk" \/ StartsWith(def.s, "fk:")) THEN "integer"
  ELSE IF def.obj /\ def.s = "enum" THEN "text"
  ELSE IF StartsWith(def.s, "faker.")
    THEN IF Includes(def.s, "number") \/ Includes(def.s, "int") \/ Includes(def.s, "boolean")
           THEN "integer"
         ELSE "text"
  ELSE "text"

\* C24: every column of every table created has the type of its field's kind,
\* the same for a generator given as a string and as an object, and the key
\* column alone is the auto-incrementing primary key
C24_ColumnTypeByKind ==
  \A i \in 1..Len(cfg) :
    HasTable(db, cfg[i].table) =>
      \A k \in 1..Len(cfg[i].fields) :
        LET col == ColOf(db, cfg[i].table, cfg[i].fields[k].name)
        IN  /\ col.type = TypeByKind(cfg[i].fields[k].def)
            /\ col.pk = IsPkDef(cfg[i].fields[k].def)

\* a re-seed ends well with this step
ReseedCompletes == phase = "serving" /\ mode # "idle" /\ mode' = "idle" /\ phase' = "serving"

\* the rows of table i in store st are as many as its seed count and carry the
\* keys the store assigned last, so none of them is a row of before
FreshlySeeded(st, i) ==
  LET t == cfg[i].table
  IN  /\ Len(st[t].rows) = seedCount(cfg[i])
      /\ \A j \in 1..Len(st[t].rows) : \A k \in 1..Len(cfg[i].fields) :
           IsPkDef(cfg[i].fields[k].def)
             => st[t].rows[j][cfg[i].fields[k].name].n > st[t].seq - seedCount(cfg[i])

\* C25: a re-seed during which no request writes, from whatever store the
\* requests before it left, ends with every table holding exactly its seed
\* count of rows, none of them from before the re-seed, and with the schema,
\* the tables and their columns as they were
C25_ReseedReplacesEveryRow ==
  [][ReseedCompletes =>
       /\ \A i \in 1..Len(cfg) : FreshlySeeded(db', i)
       /\ cfg' = cfg
       /\ DOMAIN db' = DOMAIN db
       /\ \A t \in DOMAIN db : db'[t].cols = db[t].cols]_vars

\* the step the running re-seed is about to take raises an error: a row
\* cannot be generated or the rows of a table cannot be inserted (clear
\* swallows its errors)
ReseedStepFails ==
  /\ phase = "serving"
  /\ mode = "run"
  /\ \/ /\ Len(pending) < seedCount(cfg[ti])
        /\ ~generateRow(db, cfg[ti].fields).ok
     \/ /\ Len(pending) = seedCount(cfg[ti])
        /\ ~InsertRows(db, cfg[ti].table, pending).ok

\* C26: when a step of a re-seed raises an error the re-seed is over, the
\* store stays as the steps before it left it, partially seeded, and the
\* server keeps running and answering
C26_FailedReseedKeepsServing ==
  [][(ReseedStepFails /\ mode' = "idle") => (phase' = "serving" /\ db' = db)]_vars

\* a list or detail request on a table with an id column is being answered
\* while a re-seed is running, or after steps of a re-seed or writes ran
\* between its two queries
ReadAnsweredAmidReseed ==
  /\ resp = <<>>
  /\ resp' # <<>>
  /\ resp'[1].op \in {"list", "detail"}
  /\ "id" \in ColNames(db, resp'[1].table)
  /\ reseeds > 0
  /\ \/ mode # "idle"
     \/ resp'[1].op = "list" /\ resp'[1].req.dirty

\* a list response with at most limit items and a total that is a count, or a
\* detail response with the row asked for or not-found
WellFormed(r) ==
  IF r.op = "list"
    THEN /\ r.status = 200
         /\ Len(r.body.data) <= limitNum(r.req.params)
         /\ r.body.meta.total \in Nat
         /\ r.body.meta.limit = limitNum(r.req.params)
  ELSE \/ r.status = 404
       \/ /\ r.status = 200
          /\ r.body["id"] = IntV(IntLiteralVal(r.req.id))

\* C27: a list or detail request whose reads fall between the steps of a
\* running re-seed is answered with a well-formed response, and answering it
\* leaves the server running
C27_ReadsTolerateReseed ==
  [][ReadAnsweredAmidReseed => (WellFormed(resp'[1]) /\ phase' = "serving")]_vars

\* a list request counted two rows before the re-seed cleared the table and
\* is answered, the re-seed still running, with the total 2 and no row
C27_Witness ==
  /\ resp # <<>>
  /\ resp[1].op = "list"
  /\ resp[1].status = 200
  /\ resp[1].req.dirty
  /\ reseeds > 0
  /\ mode # "idle"
  /\ resp[1].body.meta.total = 2
  /\ resp[1].body.data = <<>>

\* C30: in every list response, also when a create, a delete or a step of a
\* re-seed ran between the count query and the data query of its handler, the
\* number of items is min(limit, max(0, meta.total - offset)): the total and
\* the page describe the same rows
C30_PageMatchesTotal ==
  (resp # <<>> /\ resp[1].op = "list" /\ resp[1].status = 200)
  => LET params == resp[1].req.params
         rest == resp[1].body.meta.total - offsetOf(params)
         most == IF rest < 0 THEN 0 ELSE rest
     IN  Len(resp[1].body.data) = IF limitNum(params) < most THEN limitNum(params) ELSE most

\* every foreign key of the schema points to the id of a declared table
KeysIntoIds ==
  \A i \in 1..Len(cfg) : \A k \in FkFields(cfg[i]) :
    /\ FkTargetTable(cfg[i].fields[k].def) \in TableNames(cfg)
    /\ FkTargetCol(cfg[i].fields[k].def) = "id"

BothFinished == phase = "serving" /\ other.n > 0 /\ mode = "idle" /\ other.mode = "idle"

\* C29: when two re-seeds overlap, once both have finished every table holds
\* exactly its seed count of rows and every foreign key is null or references
\* an existing row
C29_OverlappingReseedsSettle == BothFinished => (AllSeeded(db) /\ FkValuesPresent)

====
